---- MODULE Spec2Model ----
(***************************************************************************)
(* Model of the claw-pen desktop client's gateway connection               *)
(* (src/tauri-app/src/main.rs): the connection task spawned by             *)
(* connect_websocket (outer reconnect loop, inner select loop), the        *)
(* bounded outbound channel fed by send_chat_message, and the substring    *)
(* frame classification.                                                   *)
(*                                                                         *)
(* A text frame is a sequence of tokens.  A marker token stands for the    *)
(* exact substring the code searches for; every other token is payload.    *)
(***************************************************************************)
EXTENDS Integers, Sequences, FiniteSets, TLC

\* ------------------------------------------------------------------ bounds

\* send_chat_message calls that reach the channel (environment bound).
MaxMsgs == 2
\* Transport connections the gateway accepts (environment bound).
MaxSessions == 2
\* Capacity of the outbound channel.  The code's value is 100
\* (main.rs:161, channel::<String>(100)); the model scales it down and keeps
\* it a parameter of every formula that speaks about the full queue.
QueueCap == 1

\* ------------------------------------------------------- program constants

\* tokio::time::sleep(Duration::from_secs(3))
ReconnectDelaySecs == 3
\* &text[..text.len().min(200)] in the error branch
ErrLogLimit == 200
\* &text[..text.len().min(100)] in the event branch
EventLogLimit == 100
\* AtomicU64::new(1)
CounterStart == 1
\* start + 9 in extract_nonce: the byte length of the needle "nonce":"
NonceNeedleLen == 9

\* ------------------------------------------------------------------ tokens

\* "event":"connect.challenge"
CH == "event:connect.challenge"
\* "ok":true
OKT == "ok:true"
\* "id":"cp-
CPID == "id:cp-"
\* "error"
ERR == "error"
\* "nonce":"
NONCE == "nonce:"
\* a lone double quote
QUOTE == "q"
\* one two-byte UTF-8 character
MB2 == "mb2"
\* runs of ASCII payload that hold no marker and no quote
PAD99 == "pad99"
PAD192 == "pad192"

\* Byte length of a token (markers by their literal text).
Width(tok) ==
    CASE tok = CH -> 27
      [] tok = OKT -> 9
      [] tok = CPID -> 9
      [] tok = ERR -> 7
      [] tok = NONCE -> NonceNeedleLen
      [] tok = QUOTE -> 1
      [] tok = MB2 -> 2
      [] tok = PAD99 -> 99
      [] tok = PAD192 -> 192
      [] OTHER -> 1

\* A token every byte of which is a character of its own.
IsAscii(tok) == tok # MB2

\* The tokens whose text begins with a double quote.
StartsWithQuote(tok) == tok \in {CH, OKT, CPID, ERR, NONCE, QUOTE}

RECURSIVE ByteLen(_)
ByteLen(text) ==
    IF text = <<>> THEN 0 ELSE Width(Head(text)) + ByteLen(Tail(text))

\* str::is_char_boundary(k): slicing text[..k] panics when this is false.
IsCharBoundary(text, k) ==
    \/ k = 0
    \/ k = ByteLen(text)
    \/ \E i \in 1..Len(text) :
          LET before == ByteLen(SubSeq(text, 1, i - 1))
              after == before + Width(text[i])
          IN  \/ k = before
              \/ k = after
              \/ IsAscii(text[i]) /\ before < k /\ k < after

Min(a, b) == IF a < b THEN a ELSE b

\* &text[..text.len().min(limit)] succeeds.
SliceOk(text, limit) == IsCharBoundary(text, Min(ByteLen(text), limit))

\* str::contains for a marker.
Contains(text, tok) == \E i \in 1..Len(text) : text[i] = tok

\* str::find for a marker: the least index holding it, 0 for None.
Find(text, tok) ==
    IF Contains(text, tok)
    THEN CHOOSE i \in 1..Len(text) :
            text[i] = tok /\ \A j \in 1..(i - 1) : text[j] # tok
    ELSE 0

None == [some |-> FALSE, val |-> <<>>]
Some(v) == [some |-> TRUE, val |-> v]

\* extract_nonce: the text after the first "nonce":" up to the next double
\* quote; None when the needle or the closing quote is missing.
extract_nonce(json) ==
    LET start == Find(json, NONCE)
    IN  IF start = 0 THEN None
        ELSE LET rest == SubSeq(json, start + 1, Len(json))
                 ends == {j \in 1..Len(rest) : StartsWithQuote(rest[j])}
             IN  IF ends = {} THEN None
                 ELSE LET end == CHOOSE j \in ends : \A k \in ends : j <= k
                      IN  Some(SubSeq(rest, 1, end - 1))

\* Option::unwrap_or("")
unwrap_or_empty(opt) == IF opt.some THEN opt.val ELSE <<>>

\* ------------------------------------------------------------------ frames

\* The text frames the gateway may send (the inputs of the read branch).
TextFrames ==
    { <<CH, NONCE, "a", QUOTE>>,              \* challenge, nonce a
      <<CH, NONCE, "b", QUOTE>>,              \* challenge, nonce b
      <<CH>>,                                 \* challenge marker, no nonce field
      <<CH, NONCE, "a">>,                     \* nonce value never closed
      <<CPID, OKT>>,                          \* connect response, ok
      <<CH, NONCE, "a", QUOTE, CPID, OKT>>,   \* challenge and Ack markers
      <<CPID, ERR>>,                          \* connect response, error
      <<CPID, OKT, ERR>>,                     \* Ack and error markers
      <<"x">>,                                \* a plain event
      <<ERR, PAD192, MB2>>,                   \* error text, byte 200 inside a character
      <<PAD99, MB2>> }                        \* event text, byte 100 inside a character

\* Message kinds for which is_text() and is_close() are both false.
OtherFrames == {"binary", "ping", "pong"}

\* ---------------------------------------------------------- classification

\* line 204: !connect_sent && text.contains("\"event\":\"connect.challenge\"")
ChallengeCond_NoGuard(cs, text) == Contains(text, CH)
ChallengeCond(cs, text) == ~cs /\ Contains(text, CH)

\* line 220: text.contains("\"ok\":true") && text.contains("\"id\":\"cp-")
AckCond(text) == Contains(text, OKT) /\ Contains(text, CPID)

\* line 224: text.contains("\"error\"")
ErrorCond(text) == Contains(text, ERR)

\* The chain with the event branch taken whatever the authenticated flag.
Branch_EventAlways(text, cs, auth) ==
    IF ChallengeCond(cs, text) THEN "challenge"
    ELSE IF AckCond(text) THEN "ack"
    ELSE IF ErrorCond(text) THEN "error"
    ELSE "event"

\* The if / else-if chain of the read branch: the branch a text frame takes.
Branch(text, cs, auth) ==
    IF ChallengeCond(cs, text) THEN "challenge"
    ELSE IF AckCond(text) THEN "ack"
    ELSE IF ErrorCond(text) THEN "error"
    ELSE IF auth THEN "event"
    ELSE "none"

\* build_connect_request signing an empty nonce whatever the challenge held.
build_connect_request_NoNonce(req_id, nonce) == [id |-> req_id, nonce |-> <<>>]
\* build_connect_request: the envelope's request id and the signed nonce.
build_connect_request(req_id, nonce) == [id |-> req_id, nonce |-> nonce]

\* line 245: the pump writes the dequeued message only if authenticated.
PumpSends_Always(auth) == TRUE
PumpSends(auth) == auth

\* --------------------------------------------------- device identity store

\* Concurrent load_or_create_device_keys calls (connect_websocket invocations).
NumLoaders == 2
\* load_or_create_device_keys calls made in one behaviour.
MaxLoads == 3
\* Distinct outcomes of SigningKey::generate(&mut OsRng).
NumKeys == 2

\* [u8; 32] (line 65).
KeyLen == 32
\* Index of the padding character '=' after the 64 characters of the
\* standard alphabet (line 7); a larger index is a character outside it.
B64Pad == 64

\* A Result of load_or_create_device_keys.
Ok(signing_key, device_id) ==
    [ok |-> TRUE, err |-> "", signing_key |-> signing_key, device_id |-> device_id]
Err(e) == [ok |-> FALSE, err |-> e, signing_key |-> <<>>, device_id |-> <<>>]

\* BASE64.encode without the trailing '=' characters.
RECURSIVE Base64Encode_NoPad(_)
Base64Encode_NoPad(b) ==
    IF Len(b) = 0 THEN <<>>
    ELSE IF Len(b) = 1 THEN <<b[1] \div 4, (b[1] % 4) * 16>>
    ELSE IF Len(b) = 2
    THEN <<b[1] \div 4, (b[1] % 4) * 16 + b[2] \div 16, (b[2] % 16) * 4>>
    ELSE <<b[1] \div 4, (b[1] % 4) * 16 + b[2] \div 16,
           (b[2] % 16) * 4 + b[3] \div 64, b[3] % 64>>
         \o Base64Encode_NoPad(SubSeq(b, 4, Len(b)))
\* BASE64.encode (lines 82, 83, 119, 120): bytes to the indices of the
\* characters of the standard alphabet, three bytes to four characters,
\* the last group padded with '='.
RECURSIVE Base64Encode(_)
Base64Encode(b) ==
    IF Len(b) = 0 THEN <<>>
    ELSE IF Len(b) = 1 THEN <<b[1] \div 4, (b[1] % 4) * 16, B64Pad, B64Pad>>
    ELSE IF Len(b) = 2
    THEN <<b[1] \div 4, (b[1] % 4) * 16 + b[2] \div 16, (b[2] % 16) * 4, B64Pad>>
    ELSE <<b[1] \div 4, (b[1] % 4) * 16 + b[2] \div 16,
           (b[2] % 16) * 4 + b[3] \div 64, b[3] % 64>>
         \o Base64Encode(SubSeq(b, 4, Len(b)))

\* BASE64.decode (line 64): None for a text that is not canonical padded
\* base64 (length not a multiple of four, a character outside the alphabet,
\* padding elsewhere than at the end, non-zero trailing bits).
RECURSIVE Base64Decode(_)
Base64Decode(t) ==
    IF Len(t) = 0 THEN Some(<<>>)
    ELSE IF Len(t) < 4 THEN None
    ELSE
      LET a == t[1]
          b == t[2]
          c == t[3]
          d == t[4]
          b1 == a * 4 + b \div 16
          b2 == (b % 16) * 16 + c \div 4
          b3 == (c % 4) * 64 + d
      IN  IF a >= B64Pad \/ b >= B64Pad \/ c > B64Pad \/ d > B64Pad THEN None
          ELSE IF c < B64Pad /\ d < B64Pad
          THEN LET rest == Base64Decode(SubSeq(t, 5, Len(t)))
               IN  IF rest.some THEN Some(<<b1, b2, b3>> \o rest.val) ELSE None
          ELSE IF Len(t) > 4 THEN None
          ELSE IF c < B64Pad
          THEN IF c % 4 = 0 THEN Some(<<b1, b2>>) ELSE None
          ELSE IF d = B64Pad /\ b % 16 = 0 THEN Some(<<b1>>) ELSE None

HexDigits ==
    <<"0", "1", "2", "3", "4", "5", "6", "7", "8", "9", "a", "b", "c", "d", "e", "f">>
\* hex::encode (line 79): two lowercase digits a byte.
hex_encode(b) ==
    [i \in 1..(2 * Len(b)) |->
        IF i % 2 = 1 THEN HexDigits[(b[(i + 1) \div 2] \div 16) + 1]
        ELSE HexDigits[(b[i \div 2] % 16) + 1]]

\* The n-th outcome of SigningKey::generate (line 74), as its 32 bytes.
Key(n) == [i \in 1..KeyLen |-> (n * 37 + i * 11) % 256]
\* signing_key.verifying_key().to_bytes() (lines 75, 120).  The curve
\* arithmetic is not computed: a function of the key bytes, one to one.
verifying_key(sk) == [i \in 1..Len(sk) |-> (sk[i] * 3 + 7) % 256]
\* Sha256 (lines 77-79).  The compression function is not computed: a
\* function of the message to 32 bytes, one to one on 32-byte messages.
Sha256(m) == [i \in 1..32 |-> (m[((i - 1) % Len(m)) + 1] * 5 + i) % 256]
\* Lines 77-79: the device id of a key.
derive_device_id(sk) == hex_encode(Sha256(verifying_key(sk)))

\* The "unknown" of line 68, as its characters.
Unknown == <<"u", "n", "k", "n", "o", "w", "n">>

\* The content of the file at get_device_keys_path(): absent, text that is
\* not JSON, or a JSON object whose three fields each hold a string or are
\* missing (a field that is not a string reads as missing: as_str()).
Record(pk, pub, did) ==
    [state |-> "json", privateKey |-> pk, publicKey |-> pub, deviceId |-> did]
AbsentFile == [state |-> "absent", privateKey |-> None, publicKey |-> None, deviceId |-> None]
GarbageFile == [state |-> "garbage", privateKey |-> None, publicKey |-> None, deviceId |-> None]

\* keys_json with the private key written without '=' padding.
keys_json_NoPad(sk) ==
    Record(Some(Base64Encode_NoPad(sk)), Some(Base64Encode(verifying_key(sk))),
           Some(derive_device_id(sk)))
\* Lines 81-85: the record written for a fresh key.
keys_json(sk) ==
    Record(Some(Base64Encode(sk)), Some(Base64Encode(verifying_key(sk))),
           Some(derive_device_id(sk)))

\* Lines 60-70: the load path, on the content of an existing file.
load_existing(f) ==
    IF f.state = "garbage" THEN Err("json")
    ELSE IF ~f.privateKey.some THEN Err("Missing privateKey")
    ELSE LET dec == Base64Decode(f.privateKey.val)
         IN  IF ~dec.some THEN Err("base64")
             ELSE IF Len(dec.val) # KeyLen THEN Err("Invalid key length")
             ELSE Ok(dec.val, IF f.deviceId.some THEN f.deviceId.val ELSE Unknown)

\* -------------------------------------------------------- handshake builder

\* A string is the sequence of its pieces: literals of the source as one
\* piece each, other text character by character.
Digits == <<"0", "1", "2", "3", "4", "5", "6", "7", "8", "9">>
\* format!("{}", signed_at) (lines 109, 112): the decimal digits of a u64.
RECURSIVE Decimal(_)
Decimal(n) ==
    IF n < 10 THEN <<Digits[n + 1]>>
    ELSE Decimal(n \div 10) \o <<Digits[(n % 10) + 1]>>

\* join(sep) of a sequence of strings.
RECURSIVE Join(_, _)
Join(parts, sep) ==
    IF Len(parts) = 0 THEN <<>>
    ELSE IF Len(parts) = 1 THEN parts[1]
    ELSE parts[1] \o <<sep>> \o Join(Tail(parts), sep)

\* split(sep) of a string: the fields between the separators.
RECURSIVE Split(_, _)
Split(s, sep) ==
    IF ~Contains(s, sep) THEN <<s>>
    ELSE LET k == Find(s, sep)
         IN  <<SubSeq(s, 1, k - 1)>> \o Split(SubSeq(s, k + 1, Len(s)), sep)

\* Line 106: the scopes literal of the signed message.
scopes == <<"operator.admin", ",", "operator.approvals", ",", "operator.pairing">>

\* signing_key.sign(message) (line 118).  The signature is not computed: it
\* stands for the one value that verifies for this key and this message.
sign(sk, message) == [key |-> verifying_key(sk), message |-> message]

\* DeviceKeys (lines 51-54).
DeviceKeys(signing_key, device_id) == [signing_key |-> signing_key, device_id |-> device_id]

\* Lines 108-114: the message that is signed.
canonical_message(device_id, signed_at, nonce) ==
    <<"v2", "|">> \o device_id
    \o <<"|", "openclaw-control-ui", "|", "webchat", "|", "operator", "|">>
    \o scopes \o <<"|">> \o Decimal(signed_at) \o <<"|", "|">> \o nonce

\* Lines 122-147: the envelope, for a message, around a scopes array.
envelope(req_id, nonce, device_keys, signed_at, message, scopes_array) ==
    [type |-> "req",
     id |-> req_id,
     method |-> "connect",
     params |->
       [minProtocol |-> 3,
        maxProtocol |-> 3,
        client |-> [id |-> "openclaw-control-ui", version |-> "1.0.0",
                    platform |-> "desktop", mode |-> "webchat"],
        role |-> "operator",
        scopes |-> scopes_array,
        device |-> [id |-> device_keys.device_id,
                    publicKey |-> Base64Encode(verifying_key(device_keys.signing_key)),
                    signature |-> sign(device_keys.signing_key, message),
                    signedAt |-> signed_at,
                    nonce |-> nonce],
        caps |-> <<>>,
        commands |-> <<>>]]

\* connect_request with the scopes array in another order than the signed
\* scopes.
connect_request_ScopesSwapped(req_id, nonce, device_keys, signed_at) ==
    LET message == canonical_message(device_keys.device_id, signed_at, nonce)
    IN  [message |-> message,
         envelope |-> envelope(req_id, nonce, device_keys, signed_at, message,
                               <<"operator.approvals", "operator.admin", "operator.pairing">>)]
\* build_connect_request (lines 100-148) in full: the message signed and the
\* envelope emitted for a request id, a nonce, an identity and the clock
\* reading of lines 101-104.
connect_request(req_id, nonce, device_keys, signed_at) ==
    LET message == canonical_message(device_keys.device_id, signed_at, nonce)
    IN  [message |-> message,
         envelope |-> envelope(req_id, nonce, device_keys, signed_at, message,
                               <<"operator.admin", "operator.approvals", "operator.pairing">>)]

\* ------------------------------------------------------------------- state

VARIABLES
    ws_sender,          \* AppState.ws_sender: "None" or "Some"
    pending,            \* message of the send_chat_message call suspended in
                        \* tx.send(msg).await while holding the ws_sender lock; 0: lock free
    REQUEST_ID_COUNTER, \* the shared AtomicU64
    rx,                 \* the channel's buffer, oldest first; a message is named
                        \* by the number of the send_chat_message call that built it
    task,               \* position of the spawned task
    url_ok,             \* whether the url given to connect_websocket parses
    authenticated,      \* local of the current session
    connect_sent,       \* local of the current session
    timer,              \* seconds left of the reconnect sleep
    connect_reqs,       \* connect requests written to the current transport
    written,            \* user messages written to the wire, in order
    discarded,          \* messages dequeued and not written
    sub_unauth,         \* messages whose submission completed while not Authenticated
    stale,              \* messages in the buffer when an Authenticated session ended
    sessions,           \* transports established so far
    calls,              \* send_chat_message calls that took a request id
    last,               \* the last step: handler, input, branch, notification, result
    file,               \* content of the file at get_device_keys_path()
    loaders,            \* each load_or_create_device_keys caller: its position
                        \* and the key it generated
    idlog,              \* the last load_or_create_device_keys step and its history
    hs,                 \* the last build_connect_request call: inputs and output
    tasks,              \* every spawned connection task: its position, session
                        \* locals and the channel whose receiver it owns
    installed,          \* the channel whose sender ws_sender holds (0: None)
    queues,             \* the buffer of every channel created
    issued,             \* the request ids drawn from REQUEST_ID_COUNTER, in order
    env_registration,   \* the ENABLE_REGISTRATION environment variable
    admin_password_hash,   \* AuthManager.admin_password_hash
    registration_enabled,  \* AuthManager.registration_enabled
    password_file,      \* content of <data_dir>/admin_password
    authlast,           \* the last AuthManager call and its result
    val                 \* the validation call: function, input and output

\* The state of the identity store and of the handshake builder.
idvars == <<file, loaders, idlog, hs>>

\* The tasks of several connect_websocket invocations.
tvars == <<tasks, installed, queues, issued>>

\* The orchestrator's AuthManager and its surroundings.
avars == <<env_registration, admin_password_hash, registration_enabled,
           password_file, authlast>>

\* The validation helpers.
vvars == <<val>>

\* The state of the connection manager.
svars == <<ws_sender, pending, REQUEST_ID_COUNTER, rx, task, url_ok, authenticated,
           connect_sent, timer, connect_reqs, written, discarded, sub_unauth,
           stale, sessions, calls, last>>

vars == <<ws_sender, pending, REQUEST_ID_COUNTER, rx, task, url_ok, authenticated,
          connect_sent, timer, connect_reqs, written, discarded, sub_unauth,
          stale, sessions, calls, last, file, loaders, idlog, hs,
          tasks, installed, queues, issued, env_registration, admin_password_hash,
          registration_enabled, password_file, authlast, val>>

Range(s) == {s[i] : i \in 1..Len(s)}

\* What the last step did: the handler, the branch of the classification chain
\* taken, whether the frame read held the challenge marker, the notification
\* emitted, the outcome, and the request id drawn from the counter (0: none).
Step(op, branch, chal, emit, result, id) ==
    [op |-> op, branch |-> branch, chal |-> chal, emit |-> emit,
     result |-> result, id |-> id]

\* The spec's SessionState, read off the task's position and locals.
SessionState ==
    IF task = "connecting" THEN "Connecting"
    ELSE IF task # "session" THEN "Disconnected"
    ELSE IF authenticated THEN "Authenticated"
    ELSE IF connect_sent THEN "Authenticating"
    ELSE "AwaitingChallenge"

\* No load_or_create_device_keys call made yet.
Loaders == 1..NumLoaders
IdleLoaders == [p \in Loaders |-> [pc |-> "idle", key |-> <<>>]]
NoLoad ==
    [op |-> "init", who |-> 0, ret |-> Err("-"), seen |-> AbsentFile, started |-> 0,
     generated |-> 0, overwrites |-> 0, created |-> AbsentFile, first |-> Err("-"),
     returned |-> {}]
\* No build_connect_request call made yet.
NoBuild ==
    [built |-> FALSE, req_id |-> "", nonce |-> <<>>, device_keys |-> DeviceKeys(<<>>, <<>>),
     signed_at |-> 0, out |-> [message |-> <<>>, envelope |-> [type |-> ""]]]

\* The connection manager before connect_websocket is called (main, lines 323-326).
SessionInit ==
    /\ ws_sender = "None"
    /\ pending = 0
    /\ REQUEST_ID_COUNTER = CounterStart
    /\ rx = <<>>
    /\ task = "unspawned"
    /\ url_ok = TRUE
    /\ authenticated = FALSE
    /\ connect_sent = FALSE
    /\ timer = 0
    /\ connect_reqs = <<>>
    /\ written = <<>>
    /\ discarded = {}
    /\ sub_unauth = {}
    /\ stale = {}
    /\ sessions = 0
    /\ calls = 0
    /\ last = Step("init", "-", FALSE, "none", "-", 0)

\* No connect_websocket invocation of the several-tasks view made yet.
NoTasks ==
    /\ tasks = <<>>
    /\ installed = 0
    /\ queues = <<>>
    /\ issued = <<>>

\* The orchestrator not started: no AuthManager built.
NoAuth ==
    /\ env_registration = "unset"
    /\ admin_password_hash = None
    /\ registration_enabled = FALSE
    /\ password_file = None
    /\ authlast = [op |-> "init", result |-> "-"]

\* No validation helper called.
NoValidation == val = [op |-> "init", input |-> <<>>, done |-> FALSE, out |-> <<>>]

Init ==
    /\ SessionInit
    /\ file = AbsentFile
    /\ loaders = IdleLoaders
    /\ idlog = NoLoad
    /\ hs = NoBuild
    /\ NoTasks
    /\ NoAuth
    /\ NoValidation

\* ----------------------------------------------------------------- actions

\* connect_websocket with the channel installed before the identity is
\* loaded, so that a failed load leaves a new sender behind.
connect_websocket_InstallFirst(load_ok, uok) ==
    /\ task = "unspawned"
    /\ pending = 0
    /\ ws_sender' = "Some"
    /\ rx' = <<>>
    /\ IF load_ok
       THEN /\ task' = "connecting"
            /\ url_ok' = uok
            /\ last' = Step("connect_websocket", "-", FALSE, "none", "Ok", 0)
       ELSE /\ last' = Step("connect_websocket", "-", FALSE, "none", "Err", 0)
            /\ UNCHANGED <<task, url_ok>>
    /\ UNCHANGED <<pending, REQUEST_ID_COUNTER, authenticated, connect_sent, timer,
                   connect_reqs, written, discarded, sub_unauth, stale, sessions, calls>>

\* connect_websocket (lines 151-171, 270).  load_ok: load_or_create_device_keys
\* returned Ok; uok: the url parses.  A failed load returns at line 158, before
\* the lock is taken.  This specification follows one spawned task: a call
\* whose load succeeds is made until the task is spawned.
connect_websocket(load_ok, uok) ==
    /\ IF load_ok
       THEN /\ task = "unspawned"
            /\ pending = 0
            /\ ws_sender' = "Some"
            /\ rx' = <<>>
            /\ task' = "connecting"
            /\ url_ok' = uok
            /\ last' = Step("connect_websocket", "-", FALSE, "none", "Ok", 0)
       ELSE /\ last' = Step("connect_websocket", "-", FALSE, "none", "Err", 0)
            /\ UNCHANGED <<ws_sender, rx, task, url_ok>>
    /\ UNCHANGED <<pending, REQUEST_ID_COUNTER, authenticated, connect_sent, timer,
                   connect_reqs, written, discarded, sub_unauth, stale, sessions, calls>>

\* Lines 173-182: Request::builder().uri(&url)...body(()).unwrap() panics on a
\* url that does not parse; the task ends and its receiver is dropped.
TaskPanics ==
    /\ task' = "panicked"
    /\ rx' = <<>>
    /\ authenticated' = FALSE
    /\ connect_sent' = FALSE
    /\ connect_reqs' = <<>>

BuildRequestPanics ==
    /\ task = "connecting"
    /\ ~url_ok
    /\ TaskPanics
    /\ last' = Step("build_request", "-", FALSE, "none", "panic", 0)
    /\ UNCHANGED <<ws_sender, pending, REQUEST_ID_COUNTER, url_ok, timer, written,
                   discarded, sub_unauth, stale, sessions, calls>>
    /\ UNCHANGED <<idvars, tvars, avars, vvars>>

\* Lines 184-191: connect_async_with_config returned Ok.
ConnectOk ==
    /\ task = "connecting"
    /\ url_ok
    /\ sessions < MaxSessions
    /\ task' = "session"
    /\ authenticated' = FALSE
    /\ connect_sent' = FALSE
    /\ connect_reqs' = <<>>
    /\ sessions' = sessions + 1
    /\ last' = Step("connect_ok", "-", FALSE, "ws-connected:true", "-", 0)
    /\ UNCHANGED <<ws_sender, pending, REQUEST_ID_COUNTER, rx, url_ok, timer, written,
                   discarded, sub_unauth, stale, calls>>
    /\ UNCHANGED <<idvars, tvars, avars, vvars>>

\* Lines 265-266: the task starts the reconnect sleep.
StartSleep_NoDelay == task' = "connecting" /\ timer' = 0
StartSleep == task' = "sleeping" /\ timer' = ReconnectDelaySecs

\* Lines 259-266: connect_async_with_config returned Err.
ConnectErr ==
    /\ task = "connecting"
    /\ url_ok
    /\ StartSleep
    /\ last' = Step("connect_err", "-", FALSE, "ws-connected:false", "-", 0)
    /\ UNCHANGED <<ws_sender, pending, REQUEST_ID_COUNTER, rx, url_ok, authenticated,
                   connect_sent, connect_reqs, written, discarded, sub_unauth, stale,
                   sessions, calls>>
    /\ UNCHANGED <<idvars, tvars, avars, vvars>>

\* One second of the sleep passes.
Tick ==
    /\ task = "sleeping"
    /\ timer > 0
    /\ timer' = timer - 1
    /\ last' = Step("tick", "-", FALSE, "none", "-", 0)
    /\ UNCHANGED <<ws_sender, pending, REQUEST_ID_COUNTER, rx, task, url_ok,
                   authenticated, connect_sent, connect_reqs, written, discarded,
                   sub_unauth, stale, sessions, calls>>
    /\ UNCHANGED <<idvars, tvars, avars, vvars>>

\* Line 266 completes: the sleep is over and the outer loop starts again.
Wake ==
    /\ task = "sleeping"
    /\ timer = 0
    /\ task' = "connecting"
    /\ last' = Step("wake", "-", FALSE, "none", "-", 0)
    /\ UNCHANGED <<ws_sender, pending, REQUEST_ID_COUNTER, rx, url_ok, timer,
                   authenticated, connect_sent, connect_reqs, written, discarded,
                   sub_unauth, stale, sessions, calls>>
    /\ UNCHANGED <<idvars, tvars, avars, vvars>>

\* The messages that sit in the buffer (queue) when a session ends after it
\* was Authenticated, added to those of earlier sessions.
StaleAtEnd(queue) == IF authenticated THEN stale \cup Range(queue) ELSE stale

\* A break of the inner loop (lines 217, 233, 238, 240, 249), then lines
\* 257-266: the session's locals are dropped, ws-connected(false) is emitted
\* and the sleep starts.
LeaveSession ==
    /\ StartSleep
    /\ authenticated' = FALSE
    /\ connect_sent' = FALSE
    /\ connect_reqs' = <<>>

\* Lines 198-230: read.next() yields a text frame.  send_ok: write.send of the
\* connect request succeeds.
ReadText(text, send_ok) ==
    /\ task = "session"
    /\ LET b == Branch(text, connect_sent, authenticated)
       IN
       /\ b = "challenge" \/ send_ok
       /\ CASE b = "challenge" ->
                 LET nonce == unwrap_or_empty(extract_nonce(text))
                     id == REQUEST_ID_COUNTER
                     response == build_connect_request(id, nonce)
                 IN  /\ REQUEST_ID_COUNTER' = id + 1
                     /\ IF send_ok
                        THEN /\ connect_reqs' = Append(connect_reqs, response)
                             /\ connect_sent' = TRUE
                             /\ last' = Step("read_text", b, Contains(text, CH), "none", "sent", id)
                             /\ UNCHANGED <<task, timer, authenticated, stale>>
                        ELSE /\ LeaveSession
                             /\ stale' = StaleAtEnd(rx)
                             /\ last' = Step("read_text", b, Contains(text, CH), "ws-connected:false", "send_err", id)
                     /\ UNCHANGED rx
            [] b = "ack" ->
                 /\ authenticated' = TRUE
                 /\ last' = Step("read_text", b, Contains(text, CH), "ws-authenticated", "-", 0)
                 /\ UNCHANGED <<REQUEST_ID_COUNTER, rx, task, timer, connect_sent,
                                connect_reqs, stale>>
            [] b = "error" ->
                 IF SliceOk(text, ErrLogLimit)
                 THEN /\ last' = Step("read_text", b, Contains(text, CH), "ws-error", "-", 0)
                      /\ UNCHANGED <<REQUEST_ID_COUNTER, rx, task, timer, authenticated,
                                     connect_sent, connect_reqs, stale>>
                 ELSE /\ TaskPanics
                      /\ last' = Step("read_text", b, Contains(text, CH), "none", "panic", 0)
                      /\ UNCHANGED <<REQUEST_ID_COUNTER, timer, stale>>
            [] b = "event" ->
                 IF SliceOk(text, EventLogLimit)
                 THEN /\ last' = Step("read_text", b, Contains(text, CH), "ws-message", "-", 0)
                      /\ UNCHANGED <<REQUEST_ID_COUNTER, rx, task, timer, authenticated,
                                     connect_sent, connect_reqs, stale>>
                 ELSE /\ TaskPanics
                      /\ last' = Step("read_text", b, Contains(text, CH), "none", "panic", 0)
                      /\ UNCHANGED <<REQUEST_ID_COUNTER, timer, stale>>
            [] OTHER ->
                 /\ last' = Step("read_text", b, Contains(text, CH), "none", "-", 0)
                 /\ UNCHANGED <<REQUEST_ID_COUNTER, rx, task, timer, authenticated,
                                connect_sent, connect_reqs, stale>>
    /\ UNCHANGED <<ws_sender, pending, url_ok, written, discarded, sub_unauth,
                   sessions, calls>>

\* Lines 201, 231: a frame that is neither text nor close is skipped.
ReadOther(kind) ==
    /\ task = "session"
    /\ last' = Step("read_other", "-", FALSE, "none", "skipped", 0)
    /\ UNCHANGED <<ws_sender, pending, REQUEST_ID_COUNTER, rx, task, url_ok,
                   authenticated, connect_sent, timer, connect_reqs, written,
                   discarded, sub_unauth, stale, sessions, calls>>

\* Lines 231-241: a close frame ("close"), Some(Err(e)) ("err") or None
\* ("end") breaks the inner loop.
ReadEnd(how) ==
    /\ task = "session"
    /\ LeaveSession
    /\ stale' = StaleAtEnd(rx)
    /\ last' = Step("read_end", "-", FALSE, "ws-connected:false", how, 0)
    /\ UNCHANGED <<ws_sender, pending, REQUEST_ID_COUNTER, rx, url_ok, written,
                   discarded, sub_unauth, sessions, calls>>

\* A message that left the buffer unwritten: it is gone for good, so the
\* bookkeeping about its submission is dropped with it.
Discard(msg, st) ==
    /\ discarded' = discarded \cup {msg}
    /\ sub_unauth' = sub_unauth \ {msg}
    /\ stale' = st \ {msg}

\* Lines 243-253: rx.recv() yields the oldest buffered message.  send_ok:
\* write.send of the message succeeds.
Pump(send_ok) ==
    /\ task = "session"
    /\ rx # <<>>
    /\ LET msg == Head(rx)
       IN
       /\ rx' = Tail(rx)
       /\ IF PumpSends(authenticated)
          THEN IF send_ok
               THEN /\ written' = Append(written, msg)
                    /\ last' = Step("pump", "-", FALSE, "none", "sent", 0)
                    /\ UNCHANGED <<task, timer, authenticated, connect_sent,
                                   connect_reqs, discarded, sub_unauth, stale>>
               ELSE /\ LeaveSession
                    /\ Discard(msg, StaleAtEnd(Tail(rx)))
                    /\ last' = Step("pump", "-", FALSE, "ws-connected:false", "send_err", 0)
                    /\ UNCHANGED written
          ELSE /\ send_ok
               /\ Discard(msg, stale)
               /\ last' = Step("pump", "-", FALSE, "none", "discarded", 0)
               /\ UNCHANGED <<task, timer, authenticated, connect_sent, connect_reqs,
                              written>>
    /\ UNCHANGED <<ws_sender, pending, REQUEST_ID_COUNTER, url_ok, sessions, calls>>

\* tx.send(msg) with the message entering the buffer twice.
Enqueue_Twice(msg) ==
    /\ rx' = Append(Append(rx, msg), msg)
    /\ sub_unauth' = IF SessionState # "Authenticated"
                     THEN sub_unauth \cup {msg} ELSE sub_unauth
\* tx.send(msg) completes: the message enters the buffer.
Enqueue(msg) ==
    /\ rx' = Append(rx, msg)
    /\ sub_unauth' = IF SessionState # "Authenticated"
                     THEN sub_unauth \cup {msg} ELSE sub_unauth

\* send_chat_message (lines 295-321), up to its return or its suspension in
\* tx.send(msg).await on a full buffer, the ws_sender lock held.
send_chat_message ==
    /\ pending = 0
    /\ IF ws_sender = "None"
       THEN /\ last' = Step("send_chat_message", "-", FALSE, "none", "Err:not connected", 0)
            /\ UNCHANGED <<pending, REQUEST_ID_COUNTER, rx, sub_unauth, calls>>
       ELSE /\ calls < MaxMsgs
            /\ LET id == REQUEST_ID_COUNTER
                   msg == calls + 1
               IN  /\ REQUEST_ID_COUNTER' = id + 1
                   /\ calls' = calls + 1
                   /\ IF task = "panicked"
                      THEN /\ last' = Step("send_chat_message", "-", FALSE, "none", "Err:closed", id)
                           /\ UNCHANGED <<pending, rx, sub_unauth>>
                      ELSE IF Len(rx) < QueueCap
                      THEN /\ Enqueue(msg)
                           /\ last' = Step("send_chat_message", "-", FALSE, "none", "Ok", id)
                           /\ UNCHANGED pending
                      ELSE /\ pending' = msg
                           /\ last' = Step("send_chat_message", "-", FALSE, "none", "suspended", id)
                           /\ UNCHANGED <<rx, sub_unauth>>
    /\ UNCHANGED <<ws_sender, task, url_ok, authenticated, connect_sent, timer,
                   connect_reqs, written, discarded, stale, sessions>>
    /\ UNCHANGED <<idvars, tvars, avars, vvars>>

\* The suspended tx.send(msg).await completes: with room in the buffer the
\* message is queued, with the receiver dropped it fails; the lock is released.
SendResumes ==
    /\ pending # 0
    /\ IF task = "panicked"
       THEN /\ last' = Step("send_resumes", "-", FALSE, "none", "Err:closed", 0)
            /\ UNCHANGED <<rx, sub_unauth>>
       ELSE /\ Len(rx) < QueueCap
            /\ Enqueue(pending)
            /\ last' = Step("send_resumes", "-", FALSE, "none", "Ok", 0)
    /\ pending' = 0
    /\ UNCHANGED <<ws_sender, REQUEST_ID_COUNTER, task, url_ok, authenticated,
                   connect_sent, timer, connect_reqs, written, discarded, stale,
                   sessions, calls>>
    /\ UNCHANGED <<idvars, tvars, avars, vvars>>

CallConnect ==
    /\ \E load_ok \in BOOLEAN, uok \in BOOLEAN : connect_websocket(load_ok, uok)
    /\ UNCHANGED <<idvars, tvars, avars, vvars>>
ReadAnyText ==
    /\ \E text \in TextFrames, send_ok \in BOOLEAN : ReadText(text, send_ok)
    /\ UNCHANGED <<idvars, tvars, avars, vvars>>
ReadAnyOther ==
    /\ \E kind \in OtherFrames : ReadOther(kind)
    /\ UNCHANGED <<idvars, tvars, avars, vvars>>
ReadAnyEnd ==
    /\ \E how \in {"close", "err", "end"} : ReadEnd(how)
    /\ UNCHANGED <<idvars, tvars, avars, vvars>>
PumpAny ==
    /\ \E send_ok \in BOOLEAN : Pump(send_ok)
    /\ UNCHANGED <<idvars, tvars, avars, vvars>>

Next ==
    \/ CallConnect
    \/ BuildRequestPanics
    \/ ConnectOk
    \/ ConnectErr
    \/ Tick
    \/ Wake
    \/ ReadAnyText
    \/ ReadAnyOther
    \/ ReadAnyEnd
    \/ PumpAny
    \/ send_chat_message
    \/ SendResumes

Spec == Init /\ [][Next]_vars

\* --------------------------- several connect_websocket invocations: tasks

\* Successful connect_websocket invocations in one behaviour.
MaxTasks == 2
\* Request ids drawn in one behaviour.
MaxIds == 4

\* REQUEST_ID_COUNTER.fetch_add with the counter left as it was.
fetch_add_NoIncrement(counter) == [id |-> counter, next |-> counter]
\* REQUEST_ID_COUNTER.fetch_add(1, Ordering::SeqCst) (lines 208, 302), one
\* atomic step: the value returned and the value stored.
fetch_add(counter) == [id |-> counter, next |-> counter + 1]

\* The task spawned at line 169 for the receiver of channel chan, at the top
\* of its outer loop.
NewTask(chan) == [state |-> "connecting", chan |-> chan, connect_sent |-> FALSE]

\* The tasks that are alive: connecting, in a session or in the reconnect sleep.
Running == {k \in 1..Len(tasks) : tasks[k].state \in {"connecting", "session", "sleeping"}}

\* The part of the connection manager's state these actions leave alone.
srest == <<pending, rx, task, url_ok, authenticated, connect_sent, timer, connect_reqs,
           written, discarded, sub_unauth, stale, sessions, calls, last>>

\* connect_websocket (lines 151-171, 270) with the identity loaded: a new
\* channel is created, its sender replaces the one in ws_sender (which is
\* dropped) and a task is spawned for its receiver.  Nothing stops or joins
\* a task spawned by an earlier invocation.
SpawnTask ==
    /\ Len(tasks) < MaxTasks
    /\ LET chan == Len(queues) + 1
       IN  /\ queues' = Append(queues, <<>>)
           /\ installed' = chan
           /\ tasks' = Append(tasks, NewTask(chan))
    /\ ws_sender' = "Some"
    /\ UNCHANGED <<issued, REQUEST_ID_COUNTER>>
    /\ UNCHANGED <<srest, idvars, avars, vvars>>

\* Lines 184-191, 259-266 in task k: the connect attempt succeeds (a session
\* starts, its locals fresh) or fails (the task sleeps).
TaskConnect(k, ok) ==
    /\ tasks[k].state = "connecting"
    /\ tasks' = [tasks EXCEPT ![k].state = IF ok THEN "session" ELSE "sleeping",
                              ![k].connect_sent = FALSE]
    /\ UNCHANGED <<installed, queues, issued, ws_sender, REQUEST_ID_COUNTER>>
    /\ UNCHANGED <<srest, idvars, avars, vvars>>

\* Line 266 in task k: the sleep is over.
TaskWake(k) ==
    /\ tasks[k].state = "sleeping"
    /\ tasks' = [tasks EXCEPT ![k].state = "connecting"]
    /\ UNCHANGED <<installed, queues, issued, ws_sender, REQUEST_ID_COUNTER>>
    /\ UNCHANGED <<srest, idvars, avars, vvars>>

\* Lines 204-219 in task k: a challenge is answered with a request whose id
\* cp-N is drawn from the shared counter.
TaskChallenge(k) ==
    /\ tasks[k].state = "session"
    /\ ~tasks[k].connect_sent
    /\ Len(issued) < MaxIds
    /\ LET drawn == fetch_add(REQUEST_ID_COUNTER)
       IN  /\ REQUEST_ID_COUNTER' = drawn.next
           /\ issued' = Append(issued, [kind |-> "cp", n |-> drawn.id, by |-> k])
    /\ tasks' = [tasks EXCEPT ![k].connect_sent = TRUE]
    /\ UNCHANGED <<installed, queues, ws_sender>>
    /\ UNCHANGED <<srest, idvars, avars, vvars>>

\* Lines 231-241 in task k: the session ends and the task sleeps.
TaskEnd(k) ==
    /\ tasks[k].state = "session"
    /\ tasks' = [tasks EXCEPT ![k].state = "sleeping", ![k].connect_sent = FALSE]
    /\ UNCHANGED <<installed, queues, issued, ws_sender, REQUEST_ID_COUNTER>>
    /\ UNCHANGED <<srest, idvars, avars, vvars>>

\* Lines 243-253 in task k: rx.recv() yields the oldest message of the
\* task's own channel.
TaskRecv(k) ==
    /\ tasks[k].state = "session"
    /\ queues[tasks[k].chan] # <<>>
    /\ queues' = [queues EXCEPT ![tasks[k].chan] = Tail(@)]
    /\ UNCHANGED <<tasks, installed, issued, ws_sender, REQUEST_ID_COUNTER>>
    /\ UNCHANGED <<srest, idvars, avars, vvars>>

\* send_chat_message (lines 295-321) with a sender installed: the id msg-N
\* is drawn and the message enters the channel of the installed sender.
SendChat ==
    /\ installed # 0
    /\ Len(issued) < MaxIds
    /\ LET drawn == fetch_add(REQUEST_ID_COUNTER)
       IN  /\ REQUEST_ID_COUNTER' = drawn.next
           /\ issued' = Append(issued, [kind |-> "msg", n |-> drawn.id, by |-> 0])
           /\ queues' = [queues EXCEPT ![installed] = Append(@, drawn.id)]
    /\ UNCHANGED <<tasks, installed, ws_sender>>
    /\ UNCHANGED <<srest, idvars, avars, vvars>>

TaskConnectAny == \E k \in 1..Len(tasks), ok \in BOOLEAN : TaskConnect(k, ok)
TaskWakeAny == \E k \in 1..Len(tasks) : TaskWake(k)
TaskChallengeAny == \E k \in 1..Len(tasks) : TaskChallenge(k)
TaskEndAny == \E k \in 1..Len(tasks) : TaskEnd(k)
TaskRecvAny == \E k \in 1..Len(tasks) : TaskRecv(k)

TasksNext ==
    \/ SpawnTask
    \/ TaskConnectAny
    \/ TaskWakeAny
    \/ TaskChallengeAny
    \/ TaskEndAny
    \/ TaskRecvAny
    \/ SendChat

TasksSpec == Init /\ [][TasksNext]_vars

\* ------------------------------------------- orchestrator: AuthManager

\* char::to_lowercase on the letters that occur in the values below.
ToLower(c) ==
    CASE c = "T" -> "t" [] c = "R" -> "r" [] c = "U" -> "u" [] c = "E" -> "e"
      [] OTHER -> c
\* str::to_lowercase (auth.rs line 226).
to_lowercase(v) == [i \in 1..Len(v) |-> ToLower(v[i])]

\* auth.rs lines 225-227: registration_enabled from the environment variable
\* (None: not set).
parse_enable_registration(env) ==
    IF env.some THEN to_lowercase(env.val) = <<"t", "r", "u", "e">> ELSE FALSE

\* Values of ENABLE_REGISTRATION.
EnvValues ==
    { None, Some(<<"t", "r", "u", "e">>), Some(<<"T", "R", "U", "E">>),
      Some(<<"T", "r", "u", "e">>), Some(<<"f", "a", "l", "s", "e">>), Some(<<"1">>) }

\* Passwords submitted and salts drawn by SaltString::generate.
Passwords == {"pw1", "pw2"}
Salts == {1, 2}
\* Argon2::default().hash_password(password, &salt).to_string() (auth.rs
\* lines 261-265).  The hash is not computed: it stands for the one string
\* produced for this password and this salt.
hash_password(password, salt) == <<"argon2", salt, password>>
\* A hash stored beforehand by cli_set_password (auth.rs lines 491-541).
CliHash == <<"argon2", 0, "cli">>

\* AuthManager::has_admin (auth.rs lines 242-245).
has_admin(hash) == hash.some

\* register's two tests with the first one dropped when registration is
\* enabled and the second one with it.
register_check_EnabledReplaces(enabled, hash) ==
    IF ~enabled /\ has_admin(hash) THEN "RegistrationDisabled" ELSE "proceed"
\* AuthManager::register, auth.rs lines 252-258: the two tests before the
\* password is hashed.
register_check(enabled, hash) ==
    IF ~enabled /\ has_admin(hash) THEN "RegistrationDisabled"
    ELSE IF has_admin(hash) THEN "UserAlreadyExists"
    ELSE "proceed"

\* AuthManager::new (auth.rs lines 187-240) in a process whose environment
\* holds env: the stored hash is read from the file and the flag from the
\* variable.  (The JWT secret is not modelled.)
AuthNew(env) ==
    /\ env_registration' = env
    /\ admin_password_hash' = password_file
    /\ registration_enabled' = parse_enable_registration(env)
    /\ authlast' = [op |-> "new", result |-> "Ok"]
    /\ UNCHANGED password_file
    /\ UNCHANGED <<svars, idvars, tvars, vvars>>

\* AuthManager::register (auth.rs lines 247-281), under the write lock of
\* the handler (lines 400-407).  hash_ok, write_ok, perm_ok: the outcomes of
\* hash_password, fs::write and fs::set_permissions.
register(password, salt, hash_ok, write_ok, perm_ok) ==
    /\ authlast.op # "init"
    /\ LET check == register_check(registration_enabled, admin_password_hash)
           password_hash == hash_password(password, salt)
       IN  IF check # "proceed"
           THEN /\ authlast' = [op |-> "register", result |-> check]
                /\ UNCHANGED <<admin_password_hash, password_file>>
           ELSE IF ~hash_ok
           THEN /\ authlast' = [op |-> "register", result |-> "HashError"]
                /\ UNCHANGED <<admin_password_hash, password_file>>
           ELSE IF ~write_ok
           THEN /\ authlast' = [op |-> "register", result |-> "IoError"]
                /\ UNCHANGED <<admin_password_hash, password_file>>
           ELSE IF ~perm_ok
           THEN /\ password_file' = Some(password_hash)
                /\ authlast' = [op |-> "register", result |-> "IoError"]
                /\ UNCHANGED admin_password_hash
           ELSE /\ password_file' = Some(password_hash)
                /\ admin_password_hash' = Some(password_hash)
                /\ authlast' = [op |-> "register", result |-> "Ok"]
    /\ UNCHANGED <<env_registration, registration_enabled>>
    /\ UNCHANGED <<svars, idvars, tvars, vvars>>

\* The orchestrator started: an AuthManager built by new() from a data
\* directory with or without a stored password.
AuthInit ==
    /\ SessionInit
    /\ file = AbsentFile
    /\ loaders = IdleLoaders
    /\ idlog = NoLoad
    /\ hs = NoBuild
    /\ NoTasks
    /\ NoValidation
    /\ env_registration \in EnvValues
    /\ password_file \in {None, Some(CliHash)}
    /\ admin_password_hash = password_file
    /\ registration_enabled = parse_enable_registration(env_registration)
    /\ authlast = [op |-> "new", result |-> "Ok"]

Restart == \E env \in EnvValues : AuthNew(env)
RegisterAny ==
    \E password \in Passwords, salt \in Salts, hash_ok, write_ok, perm_ok \in BOOLEAN :
        register(password, salt, hash_ok, write_ok, perm_ok)

AuthNext == Restart \/ RegisterAny

AuthSpec == AuthInit /\ [][AuthNext]_vars

\* ------------------------------------------ orchestrator: validation helpers

\* validation.rs line 13.
MAX_NAME_LENGTH == 64
\* validation.rs line 445: the length above which a message is truncated.
TruncateLimit == 500

\* Longest input, in pieces.
MaxPieces == 3

\* A container name is a sequence of pieces: single characters, the
\* two-byte character "e'" and runs of 62 and 63 letters.
NamePieces == {"a", "Z", "7", "_", "-", " ", ";", "$", "/", "e'", "a62", "a63"}
\* Characters and bytes (str::len) of a piece.
PieceChars(p) == CASE p = "a62" -> 62 [] p = "a63" -> 63 [] OTHER -> 1
PieceBytes(p) == CASE p = "a62" -> 62 [] p = "a63" -> 63 [] p = "e'" -> 2 [] OTHER -> 1
\* validation.rs line 63: c.is_ascii_alphanumeric() || c == '_' || c == '-',
\* for every character of the piece.
PieceAllowed(p) == p \in {"a", "Z", "7", "_", "-", "a62", "a63"}

RECURSIVE SumOver(_, _)
SumOver(s, i) ==
    IF i = 0 THEN 0
    ELSE (IF s[i] \in NamePieces THEN PieceBytes(s[i]) ELSE 0) + SumOver(s, i - 1)
\* name.len(): the length in bytes.
NameBytes(name) == SumOver(name, Len(name))

\* validate_container_name without the test of the first character.
validate_container_name_NoHyphenTest(name) ==
    IF Len(name) = 0 THEN "Container name cannot be empty"
    ELSE IF NameBytes(name) > MAX_NAME_LENGTH THEN "Container name too long"
    ELSE IF \A i \in 1..Len(name) : PieceAllowed(name[i]) THEN "Ok"
    ELSE "Container name contains invalid characters"
\* validate_container_name (validation.rs lines 44-72): "Ok" or the error.
validate_container_name(name) ==
    IF Len(name) = 0 THEN "Container name cannot be empty"
    ELSE IF NameBytes(name) > MAX_NAME_LENGTH THEN "Container name too long"
    ELSE IF name[1] = "-" THEN "Container name cannot start with a hyphen"
    ELSE IF \A i \in 1..Len(name) : PieceAllowed(name[i]) THEN "Ok"
    ELSE "Container name contains invalid characters"

\* An error message is a sequence of pieces: a space, a quote, a word, a
\* word of 490 bytes, path prefixes, the rest of a path, a run of 64 hex
\* digits, a dotted IPv4 address; all ASCII.
SP == " "
QT == "quote"
HEX64 == "hex64"
IP4 == "1.2.3.4"
\* validation.rs lines 411-421.
path_patterns ==
    <<"/data/claw-pen/", "/var/lib/", "/etc/", "/home/", "/root/", "/usr/", "/opt/",
      "C:\\", "\\\\">>
\* Bytes of a piece of a message.
MsgBytes(p) ==
    CASE p = "word490" -> 490 [] p = HEX64 -> 64 [] p = IP4 -> 7 [] p = SP -> 1
      [] p = QT -> 1 [] p = "[PATH]" -> 6 [] p = "[ID]" -> 4 [] p = "[IP]" -> 4
      [] p = "/etc/" -> 5 [] p = "/home/" -> 6 [] p = "/var/lib/" -> 9
      [] OTHER -> 4

\* validation.rs lines 427-429: the end of the path that starts at start,
\* the first whitespace or quote after it, or the end of the text.
PathEnd(s, start) ==
    IF \E i \in start..Len(s) : s[i] \in {SP, QT}
    THEN CHOOSE i \in start..Len(s) :
            s[i] \in {SP, QT} /\ \A j \in start..(i - 1) : s[j] \notin {SP, QT}
    ELSE Len(s) + 1

\* validation.rs lines 424-432, for one pattern: the first path holding the
\* pattern is replaced by [PATH].
ReplacePath(s, pattern) ==
    IF Contains(s, pattern)
    THEN LET start == Find(s, pattern)
             end == PathEnd(s, start)
         IN  SubSeq(s, 1, start - 1) \o <<"[PATH]">> \o SubSeq(s, end, Len(s))
    ELSE s

\* validation.rs lines 423-434: the loop over the patterns, from pattern i on.
RECURSIVE ReplacePaths(_, _)
ReplacePaths(s, i) ==
    IF i > Len(path_patterns) THEN s
    ELSE ReplacePaths(ReplacePath(s, path_patterns[i]), i + 1)

\* Regex::replace (validation.rs lines 438, 442): the first match is replaced.
RegexReplace(s, match, rep) ==
    IF Contains(s, match)
    THEN LET k == Find(s, match)
         IN  SubSeq(s, 1, k - 1) \o <<rep>> \o SubSeq(s, k + 1, Len(s))
    ELSE s

RECURSIVE MsgLen(_, _)
MsgLen(s, i) == IF i = 0 THEN 0 ELSE MsgBytes(s[i]) + MsgLen(s, i - 1)
\* validation.rs lines 445-448: a text of more than 500 bytes is cut at byte
\* 500 ("cut": the piece the cut falls in) and "..." is appended.
Truncate(s) ==
    IF MsgLen(s, Len(s)) > TruncateLimit
    THEN LET whole == CHOOSE k \in 0..Len(s) :
                         /\ MsgLen(s, k) <= TruncateLimit
                         /\ \A j \in (k + 1)..Len(s) : MsgLen(s, j) > TruncateLimit
         IN  SubSeq(s, 1, whole)
             \o (IF MsgLen(s, whole) < TruncateLimit THEN <<"cut">> ELSE <<>>)
             \o <<"...">>
    ELSE s

\* sanitize_error_message (validation.rs lines 407-451).
sanitize_error_message(error) ==
    Truncate(RegexReplace(RegexReplace(ReplacePaths(error, 1), HEX64, "[ID]"), IP4, "[IP]"))

\* Sequences of at most n pieces.
SeqsUpTo(S, n) == UNION {[1..k -> S] : k \in 0..n}

\* Names and error messages given to the helpers.
Names == SeqsUpTo(NamePieces, MaxPieces)
MsgPieces == {SP, QT, "word", "word490", "/etc/", "/home/", "/var/lib/", "tail", HEX64, IP4}
Messages == SeqsUpTo(MsgPieces, MaxPieces)

ValInit ==
    /\ SessionInit
    /\ file = AbsentFile
    /\ loaders = IdleLoaders
    /\ idlog = NoLoad
    /\ hs = NoBuild
    /\ NoTasks
    /\ NoAuth
    /\ val \in {[op |-> "validate_container_name", input |-> n, done |-> FALSE, out |-> <<>>] :
                  n \in Names}
          \cup {[op |-> "sanitize_error_message", input |-> m, done |-> FALSE, out |-> <<>>] :
                  m \in Messages}

\* The call of validate_container_name on the given name.
ValidateName ==
    /\ val.op = "validate_container_name" /\ ~val.done
    /\ val' = [val EXCEPT !.done = TRUE, !.out = <<validate_container_name(val.input)>>]
    /\ UNCHANGED <<svars, idvars, tvars, avars>>

\* The call of sanitize_error_message on the given message.
Sanitize ==
    /\ val.op = "sanitize_error_message" /\ ~val.done
    /\ val' = [val EXCEPT !.done = TRUE, !.out = sanitize_error_message(val.input)]
    /\ UNCHANGED <<svars, idvars, tvars, avars>>

ValNext == ValidateName \/ Sanitize

ValSpec == ValInit /\ [][ValNext]_vars

\* ------------------------------------------ identity store: specification

\* Files found at the path when the program starts: none, text that is not
\* JSON, and records with each field present or missing, the private key
\* of the right length, one byte short, one byte long, or not base64, and
\* the device id that of the stored key or of another key.
PrivateKeyFields ==
    { None,
      Some(Base64Encode(Key(1))),
      Some(Base64Encode(SubSeq(Key(1), 1, KeyLen - 1))),
      Some(Base64Encode(Key(1) \o <<0>>)),
      Some(<<B64Pad + 1, 0, 0, 0>>) }
PublicKeyFields == {None, Some(Base64Encode(verifying_key(Key(1))))}
DeviceIdFields == {None, Some(derive_device_id(Key(1))), Some(derive_device_id(Key(2)))}
InitialFiles ==
    {AbsentFile, GarbageFile}
    \cup {Record(pk, pub, did) :
            pk \in PrivateKeyFields, pub \in PublicKeyFields, did \in DeviceIdFields}

IdInit ==
    /\ SessionInit
    /\ file \in InitialFiles
    /\ loaders = IdleLoaders
    /\ idlog = NoLoad
    /\ hs = NoBuild
    /\ NoTasks
    /\ NoAuth
    /\ NoValidation

\* load_or_create_device_keys, lines 57-79, by caller p: the existence test
\* of line 59, then the load path up to its return (lines 60-70), or the
\* generation of a key (lines 73-79; n: the outcome of OsRng).
load_or_create_device_keys(p, n) ==
    /\ loaders[p].pc = "idle"
    /\ idlog.started < MaxLoads
    /\ IF file.state # "absent"
       THEN /\ idlog' = [idlog EXCEPT !.op = "load", !.who = p,
                                      !.ret = load_existing(file), !.seen = file,
                                      !.started = @ + 1,
                                      !.returned = IF load_existing(file).ok
                                                   THEN @ \cup {load_existing(file).signing_key}
                                                   ELSE @]
            /\ UNCHANGED loaders
       ELSE /\ loaders' = [loaders EXCEPT ![p] = [pc |-> "generated", key |-> Key(n)]]
            /\ idlog' = [idlog EXCEPT !.op = "generate", !.who = p,
                                      !.ret = Err("-"), !.seen = file,
                                      !.started = @ + 1, !.generated = @ + 1]
    /\ UNCHANGED <<file, hs>>
    /\ UNCHANGED <<svars, tvars, avars, vvars>>

\* Lines 81-92 by caller p: the record of the generated key is written to
\* the path, whatever the path holds by now, and the identity is returned.
write_keys(p) ==
    /\ loaders[p].pc = "generated"
    /\ LET sk == loaders[p].key
           ret == Ok(sk, derive_device_id(sk))
       IN  /\ file' = keys_json(sk)
           /\ idlog' = [idlog EXCEPT
                          !.op = "write", !.who = p, !.ret = ret, !.seen = file,
                          !.overwrites = IF file.state # "absent" THEN @ + 1 ELSE @,
                          !.created = IF file.state = "absent" THEN file' ELSE @,
                          !.first = IF idlog.started = 1 THEN ret ELSE @,
                          !.returned = @ \cup {sk}]
    /\ loaders' = [loaders EXCEPT ![p] = [pc |-> "idle", key |-> <<>>]]
    /\ UNCHANGED hs
    /\ UNCHANGED <<svars, tvars, avars, vvars>>

LoadAny == \E p \in Loaders, n \in 1..NumKeys : load_or_create_device_keys(p, n)
WriteAny == \E p \in Loaders : write_keys(p)

IdNext == LoadAny \/ WriteAny

IdSpec == IdInit /\ [][IdNext]_vars

\* --------------------------------------- handshake builder: specification

\* Request ids (line 210), nonces (line 205: the empty nonce of a challenge
\* without one, values, a value holding the separator), identities as the
\* identity store returns them, clock readings (lines 101-104; 0: a clock
\* before the epoch).
ReqIds == {"cp-1", "cp-2", "cp-7"}
Nonces == {<<>>, <<"a">>, <<"b">>, <<"a", "|", "b">>}
Identities ==
    { DeviceKeys(Key(1), derive_device_id(Key(1))),
      DeviceKeys(Key(2), derive_device_id(Key(2))),
      DeviceKeys(Key(1), Unknown) }
ClockReadings == {0, 9, 1730}

\* One call of build_connect_request (lines 100-148).
Build ==
    /\ \E req_id \in ReqIds, nonce \in Nonces, dk \in Identities, t \in ClockReadings :
          hs' = [built |-> TRUE, req_id |-> req_id, nonce |-> nonce,
                 device_keys |-> dk, signed_at |-> t,
                 out |-> connect_request(req_id, nonce, dk, t)]
    /\ UNCHANGED <<file, loaders, idlog>>
    /\ UNCHANGED <<svars, tvars, avars, vvars>>

HsNext == Build

HsSpec == Init /\ [][HsNext]_vars

\* ------------------------------------------------------------------ claims

\* C1: a user message is written to the wire only by the pump, only while the
\* session's authenticated flag is true at the dequeue, and it is the
\* buffer's oldest message; the flag turns true only in the Ack branch of a
\* read of the same session and is false when a session starts; a message
\* dequeued while the flag is false leaves the buffer, is not written then, and
\* no discarded message is ever among the written ones.
C1_PumpGate ==
    [][ /\ (written' # written =>
              /\ task = "session" /\ authenticated
              /\ last'.op = "pump"
              /\ rx # <<>> /\ written' = Append(written, Head(rx)) /\ rx' = Tail(rx))
        /\ (last'.op = "pump" /\ ~authenticated =>
              /\ rx' = Tail(rx) /\ written' = written
              /\ Head(rx) \in discarded')
        /\ (authenticated' /\ ~authenticated =>
              task = "session" /\ last'.op = "read_text" /\ last'.branch = "ack")
        /\ (last'.op = "connect_ok" => ~authenticated')
        /\ discarded' \cap Range(written') = {}
      ]_vars

\* C1 witness: a message has been written in an authenticated session and the
\* pump has just dequeued another one while the flag was false.
C1_Witness ==
    /\ written # <<>>
    /\ last.op = "pump" /\ last.result = "discarded"
    /\ task = "session" /\ ~authenticated

\* C2: the current transport never carries more than one connect request.
C2_AtMostOneConnect == Len(connect_reqs) <= 1

\* C2 witness: with the connect request already written, a further frame
\* holding the challenge marker was read and did not take the challenge branch.
C2_Witness ==
    /\ task = "session" /\ connect_sent /\ Len(connect_reqs) = 1
    /\ last.op = "read_text" /\ last.chal /\ last.branch # "challenge"

\* C3 (as claimed): whenever the authenticated flag is set, a connect request
\* has been written in the current transport session.
C3_AuthOnlyAfterConnect ==
    authenticated => connect_sent /\ Len(connect_reqs) = 1

\* C4 (as claimed): reading an Error frame while Authenticating ends the
\* session and starts the reconnect delay.
C4_ErrorDropsSession ==
    [][ (/\ SessionState = "Authenticating"
         /\ last'.op = "read_text" /\ last'.branch = "error")
        => task' = "sleeping" ]_vars

\* C5: a close frame, a read error, the end of the stream, or a failed write
\* of the connect request or of a user message ends the session: the task is
\* Disconnected, authenticated is false, ws-connected(false) is emitted and the
\* full delay is armed; and the task enters a connect attempt after a session
\* or a failed attempt only from the sleep with the whole delay elapsed.
C5_EndThenDelay ==
    [][ /\ (task = "session" /\ (last'.op = "read_end" \/ last'.result = "send_err") =>
              /\ task' = "sleeping" /\ timer' = ReconnectDelaySecs
              /\ ~authenticated' /\ SessionState' = "Disconnected"
              /\ last'.emit = "ws-connected:false")
        /\ (task' = "connecting" /\ task \notin {"connecting", "unspawned"} =>
              task = "sleeping" /\ timer = 0)
      ]_vars

\* C5 witness: a session has ended, the delay has run out and the task has
\* just gone back to the connect attempt.
C5_Witness ==
    /\ task = "connecting" /\ last.op = "wake" /\ sessions >= 1 /\ timer = 0

\* C6 (as claimed): given a url that lets connect attempts happen, no connect
\* failure, inbound frame or send failure ever puts the task in a state from
\* which it retries no more.
C6_NeverStopsRetrying == url_ok => task # "panicked"

\* C7 (as claimed): no send_chat_message call is ever suspended on a full
\* buffer with the ws_sender lock held.
C7_SubmitNeverBlocks == pending = 0

\* C8 (as claimed): a message whose submission completed while the session
\* was not Authenticated is never written to the wire.
C8_UnauthSubmitNeverWritten == Range(written) \cap sub_unauth = {}

\* C9 (as claimed): a message that sat in the buffer when an Authenticated
\* session ended is never written to the wire afterwards.
C9_NoReplayAfterReconnect == Range(written) \cap stale = {}

\* C10 (as claimed): reading a frame that holds the challenge marker and no
\* nonce field writes no connect request and leaves connect_sent and
\* authenticated as they were.
C10_MissingNonceIgnored ==
    [][ \A text \in TextFrames :
          (/\ Contains(text, CH) /\ ~Contains(text, NONCE)
           /\ \E send_ok \in BOOLEAN : ReadText(text, send_ok))
          => UNCHANGED <<connect_sent, authenticated, connect_reqs>> ]_vars

\* Every variable a step that only returns to its caller leaves alone.
AllButLast ==
    <<ws_sender, pending, REQUEST_ID_COUNTER, rx, task, url_ok, authenticated,
      connect_sent, timer, connect_reqs, written, discarded, sub_unauth, stale,
      sessions, calls, file, loaders, idlog, hs, tvars, avars, vvars>>

\* C11 (as claimed): whatever the session state, a text frame holding the
\* challenge marker is never handled in the Ack, error or event branch, a
\* frame with the Ack markers never in the error or event branch, and a frame
\* with the error marker never in the event branch.
C11_FirstMatchOrder ==
    [][ \A text \in TextFrames :
          (\E send_ok \in BOOLEAN : ReadText(text, send_ok)) =>
             /\ (Contains(text, CH) => last'.branch \notin {"ack", "error", "event"})
             /\ (AckCond(text) => last'.branch \notin {"error", "event"})
             /\ (ErrorCond(text) => last'.branch # "event") ]_vars

\* C12: ws-message is emitted only by a read in a session whose authenticated
\* flag is set; a text frame that is neither challenge, Ack nor error and is
\* read while the flag is false takes no branch: nothing is emitted and no
\* variable of the program changes.
C12_NoEventBeforeAuth ==
    [][ /\ (last'.emit = "ws-message" =>
              task = "session" /\ authenticated /\ last'.op = "read_text")
        /\ (/\ task = "session" /\ ~authenticated /\ last'.op = "read_text"
            /\ last'.branch \notin {"challenge", "ack", "error"}
            => /\ last'.branch = "none" /\ last'.emit = "none"
               /\ UNCHANGED AllButLast) ]_vars

\* C12 witness: an unauthenticated session has just read a text frame that
\* took no branch.
C12_Witness ==
    /\ task = "session" /\ ~authenticated
    /\ last.op = "read_text" /\ last.branch = "none" /\ last.emit = "none"

\* C14: a connect_websocket call whose identity load fails changes nothing
\* (no sender installed, no task position, no channel); the task leaves
\* "unspawned" only by a call that returned Ok, and no connect attempt is made
\* while it is unspawned.
C14_LoadFailureHalts ==
    [][ /\ (last'.op = "connect_websocket" /\ last'.result = "Err" =>
              UNCHANGED AllButLast)
        /\ (task = "unspawned" /\ task' # "unspawned" =>
              last'.op = "connect_websocket" /\ last'.result = "Ok")
        /\ (last'.op \in {"connect_ok", "connect_err", "build_request"} =>
              task # "unspawned")
        /\ (task' = "unspawned" => ws_sender' = "None" /\ sessions' = 0)
      ]_vars

\* C14 witness: the call has just failed and nothing is installed or spawned.
C14_Witness ==
    /\ last.op = "connect_websocket" /\ last.result = "Err"
    /\ task = "unspawned" /\ ws_sender = "None" /\ sessions = 0

\* C20 (as claimed): no read of a text frame ends the task, and the inner
\* loop is left only by a close frame, a read error, the end of the stream or
\* a failed write.
C20_NoFrameEndsTask ==
    [][ /\ (last'.op = "read_text" => task' # "panicked")
        /\ (task = "session" /\ task' # "session" =>
              last'.op = "read_end" \/ last'.result = "send_err") ]_vars

\* A persisted record that is malformed: not JSON, a field missing, or a
\* private key that does not decode to 32 bytes.
Malformed(f) ==
    \/ f.state = "garbage"
    \/ /\ f.state = "json"
       /\ \/ ~f.privateKey.some
          \/ ~f.publicKey.some
          \/ ~f.deviceId.some
          \/ LET dec == Base64Decode(f.privateKey.val)
             IN  ~dec.some \/ Len(dec.val) # KeyLen

\* C13: when the persisted record exists and is malformed (not JSON, private
\* key not 32 bytes, or one of privateKey, publicKey, deviceId missing),
\* load_or_create_device_keys returns an error; an identity it returns from
\* a record carries the record's own deviceId, never a placeholder.
C13_MalformedRecordIsError ==
    idlog.op = "load" =>
        /\ (Malformed(idlog.seen) => ~idlog.ret.ok)
        /\ (idlog.ret.ok =>
              idlog.seen.deviceId.some /\ idlog.ret.device_id = idlog.seen.deviceId.val)

\* C15: while the identity file exists no call writes to it or generates a
\* key, and the file keeps the content the first creating call wrote.
C15_CreatedOnceImmutable ==
    [][ /\ (file.state # "absent" =>
              file' = file /\ idlog'.generated = idlog.generated)
        /\ (idlog'.created.state # "absent" => file' = idlog'.created) ]_vars

\* C16: every identity returned, generated or loaded from an accepted
\* record, has deviceId = hex(SHA-256(public key of the returned signing key)).
C16_DeviceIdIsKeyHash ==
    idlog.op \in {"load", "write"} /\ idlog.ret.ok =>
        idlog.ret.device_id = derive_device_id(idlog.ret.signing_key)

\* C17: with no persisted record, after a first call has created the
\* identity, every further call returns an identity with the signing key
\* and the deviceId the first call returned.
C17_CreateThenLoadRoundTrip ==
    idlog.first.ok =>
        /\ idlog.op \in {"load", "write"}
        /\ idlog.ret.ok
        /\ idlog.ret.signing_key = idlog.first.signing_key
        /\ idlog.ret.device_id = idlog.first.device_id
\* A third call, by another caller than the last creating one, has loaded
\* the record the first call wrote.
C17_Witness ==
    /\ idlog.first.ok
    /\ idlog.op = "load"
    /\ idlog.started >= 3
    /\ idlog.seen = keys_json(idlog.first.signing_key)
    /\ idlog.ret.signing_key \in {Key(n) : n \in 1..NumKeys}

\* C18: the signed message is v2|deviceId|client id|client mode|role|scopes
\* joined by commas|signedAt||nonce, each field that of the emitted envelope
\* (scopes in the array's order, an empty field before the nonce); the
\* envelope has type req, method connect and the given request id.
C18_SignedMessageMatchesEnvelope ==
    hs.built =>
        LET env == hs.out.envelope
            par == env.params
            msg == hs.out.message
            fields == << <<"v2">>, par.device.id, <<par.client.id>>, <<par.client.mode>>,
                         <<par.role>>,
                         Join([i \in 1..Len(par.scopes) |-> <<par.scopes[i]>>], ","),
                         Decimal(par.device.signedAt), <<>>, par.device.nonce >>
        IN  /\ msg = Join(fields, "|")
            /\ par.device.signature.message = msg
            /\ par.device.id = hs.device_keys.device_id
            /\ par.device.nonce = hs.nonce
            /\ par.device.signedAt = hs.signed_at
            /\ env.type = "req" /\ env.method = "connect" /\ env.id = hs.req_id
            /\ (~Contains(hs.nonce, "|") => Split(msg, "|") = fields)
\* A request built for a nonce, a hashed device id and a clock reading of
\* several digits.
C18_Witness ==
    /\ hs.built
    /\ hs.nonce = <<"a">>
    /\ hs.signed_at > 9
    /\ hs.req_id = "cp-7"
    /\ hs.device_keys.device_id # Unknown
    /\ Len(Split(hs.out.message, "|")) = 9

\* C23: the notifications of the connection task are well bracketed:
\* ws-connected(true) is emitted only outside a session, a session that is
\* left emits its ws-connected(false), ws-connected(false) is emitted only
\* to close a session or for a failed connect attempt, every failed connect
\* attempt emits it, ws-authenticated and ws-message are emitted only inside
\* a session, and ws-message only after the session's ws-authenticated.
C23_NotificationsBracketed ==
    [][ /\ (last'.emit = "ws-connected:true" => task # "session" /\ task' = "session")
        /\ (task = "session" /\ task' # "session" => last'.emit = "ws-connected:false")
        /\ (last'.emit = "ws-connected:false" =>
              \/ task = "session" /\ task' # "session"
              \/ last'.op = "connect_err")
        /\ (last'.op = "connect_err" => last'.emit = "ws-connected:false")
        /\ (last'.emit \in {"ws-authenticated", "ws-message"} =>
              task = "session" /\ task' = "session")
        /\ (last'.emit = "ws-authenticated" => authenticated')
        /\ (last'.emit = "ws-message" => authenticated) ]_vars

\* C28: a connect request is written only while a frame holding the
\* challenge marker is handled in the session, it carries the nonce of that
\* frame and the id just drawn; when writing it fails, connect_sent stays
\* false and the session ends.
C28_ConnectAnswersChallenge ==
    [][ /\ (connect_reqs' # connect_reqs /\ connect_reqs' # <<>> =>
              /\ task = "session" /\ last'.op = "read_text"
              /\ last'.branch = "challenge" /\ last'.chal)
        /\ (last'.op = "read_text" /\ last'.branch = "challenge") =>
           \A text \in TextFrames :
             (\E send_ok \in BOOLEAN : ReadText(text, send_ok)) =>
                /\ Contains(text, CH)
                /\ (last'.result = "sent" =>
                      /\ connect_reqs' =
                           Append(connect_reqs,
                                  [id |-> REQUEST_ID_COUNTER,
                                   nonce |-> IF extract_nonce(text).some
                                             THEN extract_nonce(text).val ELSE <<>>])
                      /\ connect_sent' /\ task' = "session")
                /\ (last'.result = "send_err" =>
                      ~connect_sent' /\ task' # "session" /\ connect_reqs' = <<>>) ]_vars
\* In a second session the challenge with nonce b was answered, after the
\* first session answered another challenge.
C28_Witness ==
    /\ sessions >= 2
    /\ task = "session"
    /\ last.op = "read_text" /\ last.branch = "challenge" /\ last.result = "sent"
    /\ Len(connect_reqs) = 1
    /\ connect_reqs[1].nonce = <<"b">>
    /\ connect_reqs[1].id > CounterStart

\* C29: no handshake timeout: in a session that is not authenticated, a step
\* that reads nothing from the transport leaves the task in the session,
\* unauthenticated, with connect_sent and the wire unchanged, and a message
\* dequeued in such a step is discarded.
C29_NoHandshakeTimeout ==
    [][ task = "session" /\ ~authenticated
        /\ last'.op \notin {"read_text", "read_other", "read_end"} =>
           /\ task' = "session"
           /\ ~authenticated'
           /\ connect_sent' = connect_sent
           /\ connect_reqs' = connect_reqs
           /\ written' = written
           /\ (last'.op = "pump" =>
                 /\ last'.result = "discarded"
                 /\ rx' = Tail(rx)
                 /\ discarded' = discarded \cup {Head(rx)}) ]_vars
\* After the connect request was sent and no Ack came, a dequeued message
\* was discarded and the session goes on.
C29_Witness ==
    /\ task = "session" /\ ~authenticated /\ connect_sent
    /\ last.op = "pump" /\ last.result = "discarded"
    /\ discarded # {}

C21_OneConnectionTask ==
    /\ Cardinality(Running) <= 1
    /\ (installed # 0 => Running = {k \in 1..Len(tasks) : tasks[k].chan = installed})

\* C22: the numbers of the request ids drawn from the shared counter, cp-N
\* by the tasks and msg-N by send_chat_message, are pairwise distinct.
C22_RequestIdsUnique ==
    \A i, j \in 1..Len(issued) : i # j => issued[i].n # issued[j].n
\* Two tasks and send_chat_message have all drawn ids.
C22_Witness ==
    /\ Len(issued) >= 4
    /\ \E i, j, m \in 1..Len(issued) :
          /\ issued[i].kind = "cp" /\ issued[i].by = 1
          /\ issued[j].kind = "cp" /\ issued[j].by = 2
          /\ issued[m].kind = "msg" /\ i < m /\ m < j

\* C24: register never replaces an admin credential: a register call
\* succeeds only when no admin exists, and with a hash stored it fails,
\* RegistrationDisabled when registration is not enabled and
\* UserAlreadyExists when it is, leaving the hash and the file as they were.
C24_RegisterNeverReplaces ==
    [][ authlast'.op = "register" =>
          /\ (authlast'.result = "Ok" =>
                ~has_admin(admin_password_hash) /\ has_admin(admin_password_hash'))
          /\ (has_admin(admin_password_hash) =>
                /\ authlast'.result = IF registration_enabled THEN "UserAlreadyExists"
                                      ELSE "RegistrationDisabled"
                /\ admin_password_hash' = admin_password_hash
                /\ password_file' = password_file) ]_vars
\* With registration enabled and an admin registered through register, a
\* further register call was refused.
C24_Witness ==
    /\ registration_enabled
    /\ authlast = [op |-> "register", result |-> "UserAlreadyExists"]
    /\ admin_password_hash \in {Some(hash_password(p, s)) : p \in Passwords, s \in Salts}

\* C25: while ENABLE_REGISTRATION is not set to true every register call is
\* rejected with RegistrationDisabled and stores no password, whether or not
\* an admin exists.
C25_RegistrationOffByDefault ==
    [][ authlast'.op = "register" /\ ~parse_enable_registration(env_registration) =>
          /\ authlast'.result = "RegistrationDisabled"
          /\ admin_password_hash' = admin_password_hash
          /\ password_file' = password_file ]_vars

\* Characters of a name.
RECURSIVE NameChars(_, _)
NameChars(name, i) == IF i = 0 THEN 0 ELSE PieceChars(name[i]) + NameChars(name, i - 1)

\* C26: validate_container_name accepts a name exactly when it has 1 to 64
\* characters, all of them ASCII letters, digits, underscore or hyphen, and
\* does not start with a hyphen; every other name gets an error.
C26_NameAcceptedIffWellFormed ==
    val.op = "validate_container_name" /\ val.done =>
        LET name == val.input
            chars == NameChars(name, Len(name))
            well_formed ==
                /\ 1 <= chars /\ chars <= 64
                /\ \A i \in 1..Len(name) :
                      name[i] \in {"a", "Z", "7", "_", "-", "a62", "a63"}
                /\ name[1] # "-"
        IN  (val.out = <<"Ok">>) <=> well_formed
\* A name of exactly 64 allowed characters, a hyphen among them, was accepted.
C26_Witness ==
    /\ val.op = "validate_container_name" /\ val.done
    /\ val.out = <<"Ok">>
    /\ NameChars(val.input, Len(val.input)) = 64
    /\ Contains(val.input, "-")

\* C27: the output of sanitize_error_message holds no path with one of the
\* listed prefixes, no 64-digit hex id and no IPv4 address, also when the
\* input holds several of them.
C27_SanitizedHoldsNoSecrets ==
    val.op = "sanitize_error_message" /\ val.done =>
        /\ \A i \in 1..7 : ~Contains(val.out, path_patterns[i])
        /\ ~Contains(val.out, HEX64)
        /\ ~Contains(val.out, IP4)

\* C31: within a session the authenticated flag, once set, stays set until
\* the session ends, whatever frame is read; an error frame read while
\* Authenticated emits ws-error and changes nothing else: the session goes
\* on, Authenticated.
C31_AuthenticatedMonotone ==
    [][ /\ (task = "session" /\ authenticated /\ task' = "session" => authenticated')
        /\ (task = "session" /\ authenticated
            /\ last'.op = "read_text" /\ last'.branch = "error" =>
               /\ last'.emit = "ws-error"
               /\ task' = "session" /\ authenticated'
               /\ UNCHANGED AllButLast) ]_vars

\* C32: when load_or_create_device_keys calls overlap on first use, every
\* identity returned to a caller is, once all calls are over, the identity
\* the file holds.
C32_ReturnedIdentityIsPersisted ==
    (\A p \in Loaders : loaders[p].pc = "idle") =>
        \A sk \in idlog.returned : file.privateKey = Some(Base64Encode(sk))

====
